---- MODULE Spec2Model ----
(***************************************************************************)
(* Model of dataframe_inserter: the relational inserters (MySQL and        *)
(* PostgreSQL), the PostgreSQL bulk writer (CSV + COPY), the session       *)
(* handler (execute_query, batch_update, close_connection) and the Google  *)
(* Sheets inserter.                                                        *)
(***************************************************************************)
EXTENDS Integers, Sequences, FiniteSets, TLC

VARIABLES
    csvKeys,    \* psql_insert_copy: the keys argument (column names, in order)
    csvData,    \* psql_insert_copy: the rows data_iter yields
    csvPc,      \* "start" before psql_insert_copy has run, "done" after
    csvSql,     \* the command handed to copy_expert (a token sequence)
    csvFile,    \* the buffer handed to copy_expert: [data, pos]
    csvLoaded   \* the rows the COPY command loaded, in table column order

VARIABLES
    kind,        \* the inserter constructed: "mysql", "postgres" or "sheets"
    engine,      \* db_handler.engine: "live" or "disposed"
    table,       \* the committed rows of the target table, in insertion order
    calls,       \* insert_df calls made on this inserter instance
    closeCalls,  \* close_connection invocations on this instance
    staleWrites, \* writes attempted through an engine already disposed
    ret          \* what the last insert_df call did and how it ended

VARIABLES
    openSessions, \* sessions of the handler opened and not yet closed
    peakOpen,     \* the most sessions that were ever open at one time
    hRet          \* what the last execute_query / batch_update call did

VARIABLES
    sheet,        \* the cells of the spreadsheet's sheet: row -> column -> text
    gCalls,       \* insert_df_to_google_sheet calls made
    gRet          \* what the last insert_df_to_google_sheet call did

csvVars == <<csvKeys, csvData, csvPc, csvSql, csvFile, csvLoaded>>
insVars == <<kind, engine, table, calls, closeCalls, staleWrites, ret>>

hVars   == <<openSessions, peakOpen, hRet>>
gVars   == <<sheet, gCalls, gRet>>

vars == <<csvKeys, csvData, csvPc, csvSql, csvFile, csvLoaded,
          kind, engine, table, calls, closeCalls, staleWrites, ret,
          openSessions, peakOpen, hRet, sheet, gCalls, gRet>>

-----------------------------------------------------------------------------
(* Bounds *)

MaxCsvRows == 2
MaxRows    == 2    \* rows of a dataset handed to insert_df
MaxTable   == 3    \* rows the target table may hold
MaxCalls   == 2    \* insert_df calls on one inserter instance
MaxBatch   == 2    \* parameter rows of one batch_update call
MaxHCalls  == 2    \* execute_query / batch_update calls on one handler
MaxSheetRows == 4  \* rows of the sheet's grid
MaxFill    == 2    \* rows a column of the sheet holds at the start
MaxSheetData == 2  \* rows of a dataset handed to insert_df_to_google_sheet
MaxGCalls  == 1    \* insert_df_to_google_sheet calls

-----------------------------------------------------------------------------
(* Scalar values of a dataset: integer, text (a sequence of characters) or *)
(* null (None).                                                            *)

COMMA == ","
QUOTE == "\""
CR    == "\r"
LF    == "\n"

Null    == [tag |-> "null", num |-> 0, txt |-> <<>>]
Int1(n) == [tag |-> "int",  num |-> n, txt |-> <<>>]
Text(s) == [tag |-> "text", num |-> 0, txt |-> s]

\* The target table: its columns in table order, and each column's type.
TableName == "t"
TableCols == <<"id", "name">>
ColType(k) == IF k = "id" THEN "int" ELSE "text"

IdVals   == {Int1(1), Int1(7), Null}
NameVals == {Text(<<>>), Text(<<"a">>), Text(<<COMMA>>), Text(<<QUOTE>>),
             Text(<<"a", LF, "b">>), Null}
ColVals(k) == IF k = "id" THEN IdVals ELSE NameVals

\* The key lists a dataset may carry (DataFrame column order).
KeyLists == {<<"id", "name">>, <<"name", "id">>, <<"name">>}

RowsOf(keys) == {r \in [1..Len(keys) -> IdVals \cup NameVals] :
                    \A i \in 1..Len(keys) : r[i] \in ColVals(keys[i])}

RECURSIVE SeqsUpTo(_, _)
SeqsUpTo(S, n) ==
    IF n = 0 THEN {<<>>}
    ELSE LET shorter == SeqsUpTo(S, n - 1)
         IN  shorter \cup {Append(q, x) : q \in {p \in shorter : Len(p) = n - 1}, x \in S}

-----------------------------------------------------------------------------
(* csv.writer(s_buf).writerows(data_iter), default (excel) dialect:        *)
(* delimiter ',', quotechar '"', doublequote, QUOTE_MINIMAL, '\r\n'.       *)

DigitChars == <<"0", "1", "2", "3", "4", "5", "6", "7", "8", "9">>

RECURSIVE Digits(_)
Digits(n) == IF n < 10 THEN <<DigitChars[n + 1]>>
             ELSE Append(Digits(n \div 10), DigitChars[(n % 10) + 1])

\* The text the writer makes of a value: None is written as the empty
\* string, anything else as str(value).
Str(v) == IF v.tag = "null" THEN <<>>
          ELSE IF v.tag = "int" THEN Digits(v.num)
          ELSE v.txt

NeedsQuote(s) == \E i \in 1..Len(s) : s[i] \in {COMMA, QUOTE, CR, LF}

RECURSIVE Doubled(_)
Doubled(s) == IF s = <<>> THEN <<>>
              ELSE IF Head(s) = QUOTE THEN <<QUOTE, QUOTE>> \o Doubled(Tail(s))
              ELSE <<Head(s)>> \o Doubled(Tail(s))

EncodeField(v) == LET s == Str(v)
                  IN  IF NeedsQuote(s) THEN <<QUOTE>> \o Doubled(s) \o <<QUOTE>>
                      ELSE s

RECURSIVE JoinFields(_)
JoinFields(r) == IF r = <<>> THEN <<>>
                 ELSE IF Len(r) = 1 THEN EncodeField(r[1])
                 ELSE EncodeField(r[1]) \o <<COMMA>> \o JoinFields(Tail(r))

\* A record of one field that is empty is written as "" (a quoted empty
\* field), so that the line is not blank.
WriteRow(r) == LET rec == JoinFields(r)
               IN  (IF Len(r) > 0 /\ rec = <<>> THEN <<QUOTE, QUOTE>> ELSE rec)
                   \o <<CR, LF>>

RECURSIVE WriteRows(_)
WriteRows(D) == IF D = <<>> THEN <<>> ELSE WriteRow(Head(D)) \o WriteRows(Tail(D))

-----------------------------------------------------------------------------
(* COPY <table> (<columns>) FROM STDIN WITH CSV: the server reads the file *)
(* from its current position. An unquoted empty field is NULL, a quoted    *)
(* field is text, "" inside quotes is one quote, a line break inside       *)
(* quotes is data.                                                         *)

RawField(fld, wasQuoted) == [null |-> (~wasQuoted /\ fld = <<>>), txt |-> fld]

RECURSIVE CopyParse(_, _, _, _, _, _, _)
CopyParse(buf, i, inQ, fld, wasQ, row, rows) ==
    IF i > Len(buf)
    THEN IF row = <<>> /\ fld = <<>> /\ ~wasQ THEN rows
         ELSE Append(rows, Append(row, RawField(fld, wasQ)))
    ELSE LET c == buf[i] IN
         IF inQ
         THEN IF c = QUOTE
              THEN IF i < Len(buf) /\ buf[i + 1] = QUOTE
                   THEN CopyParse(buf, i + 2, TRUE, Append(fld, QUOTE), TRUE, row, rows)
                   ELSE CopyParse(buf, i + 1, FALSE, fld, TRUE, row, rows)
              ELSE CopyParse(buf, i + 1, TRUE, Append(fld, c), TRUE, row, rows)
         ELSE IF c = QUOTE THEN CopyParse(buf, i + 1, TRUE, fld, TRUE, row, rows)
         ELSE IF c = COMMA
              THEN CopyParse(buf, i + 1, FALSE, <<>>, FALSE,
                             Append(row, RawField(fld, wasQ)), rows)
         ELSE IF c = CR THEN CopyParse(buf, i + 1, FALSE, fld, wasQ, row, rows)
         ELSE IF c = LF
              THEN CopyParse(buf, i + 1, FALSE, <<>>, FALSE, <<>>,
                             Append(rows, Append(row, RawField(fld, wasQ))))
         ELSE CopyParse(buf, i + 1, FALSE, Append(fld, c), wasQ, row, rows)

DigitValue(c) == CHOOSE d \in 0..9 : DigitChars[d + 1] = c

RECURSIVE ParseInt(_)
ParseInt(s) == IF Len(s) = 1 THEN DigitValue(s[1])
               ELSE 10 * ParseInt(SubSeq(s, 1, Len(s) - 1)) + DigitValue(s[Len(s)])

\* The value a column of type ty takes from a field of the file.
CopyValue(raw, ty) == IF raw.null THEN Null
                      ELSE IF ty = "int" THEN Int1(ParseInt(raw.txt))
                      ELSE Text(raw.txt)

\* The records of the file, each field read as the value of the column the
\* command names at that position.
DecodeRows(file, columns) ==
    LET recs == CopyParse(SubSeq(file.data, file.pos + 1, Len(file.data)),
                          1, FALSE, <<>>, FALSE, <<>>, <<>>)
    IN  [j \in 1..Len(recs) |->
            [i \in 1..Len(recs[j]) |-> CopyValue(recs[j][i], ColType(columns[i]))]]

\* A decoded record as a row of the table: each named column takes its
\* field, a column the command does not name takes its default (NULL).
LoadedRow(rec, columns) ==
    [c \in 1..Len(TableCols) |->
        IF \E i \in 1..Len(columns) : columns[i] = TableCols[c]
        THEN rec[CHOOSE i \in 1..Len(columns) : columns[i] = TableCols[c]]
        ELSE Null]

-----------------------------------------------------------------------------
(* PostgreSQLDatabaseInserter.psql_insert_copy(table, conn, keys, data_iter) *)

\* columns = ', '.join(f'"{k}"' for k in keys)
RECURSIVE QuotedColumns(_)
QuotedColumns(keys) ==
    IF keys = <<>> THEN <<>>
    ELSE IF Len(keys) = 1 THEN <<QUOTE, keys[1], QUOTE>>
    ELSE <<QUOTE, keys[1], QUOTE, ", ">> \o QuotedColumns(Tail(keys))

\* sql = f'COPY {table.name} ({columns}) FROM STDIN WITH CSV'
CopySql(tname, keys) ==
    <<"COPY ", tname, " (">> \o QuotedColumns(keys) \o <<") FROM STDIN WITH CSV">>

\* s_buf after writerows: everything written, the position at the end.
WrittenBuffer(data) == LET b == WriteRows(data) IN [data |-> b, pos |-> Len(b)]

\* The buffer left where the writer stopped: the rewind forgotten.
NoSeek(file) == file

\* s_buf.seek(0)
Seek0(file) == [file EXCEPT !.pos = 0]

\* A writer that returns before issuing the command when there is no row.
CopyCallSkipEmpty(tname, keys, data) ==
    [sql |-> IF data = <<>> THEN <<>> ELSE CopySql(tname, keys),
     file |-> Seek0(WrittenBuffer(data)), columns |-> keys]

\* What psql_insert_copy hands to cur.copy_expert(sql=sql, file=s_buf).
CopyCall(tname, keys, data) ==
    [sql |-> CopySql(tname, keys), file |-> Seek0(WrittenBuffer(data)), columns |-> keys]

\* The rows cur.copy_expert loads into the table.
CopyExpert(call) ==
    LET recs == DecodeRows(call.file, call.columns)
    IN  [j \in 1..Len(recs) |-> LoadedRow(recs[j], call.columns)]

psql_insert_copy ==
    /\ csvPc = "start"
    /\ LET call == CopyCall(TableName, csvKeys, csvData)
       IN  /\ csvSql' = call.sql
           /\ csvFile' = call.file
           /\ csvLoaded' = CopyExpert(call)
    /\ csvPc' = "done"
    /\ UNCHANGED <<csvKeys, csvData, insVars, hVars, gVars>>

InitCsv ==
    /\ csvKeys \in KeyLists
    /\ csvData \in SeqsUpTo(RowsOf(csvKeys), MaxCsvRows)
    /\ csvPc = "start"
    /\ csvSql = <<>>
    /\ csvFile = [data |-> <<>>, pos |-> 0]
    /\ csvLoaded = <<>>

\* The bulk writer not in use.
IdleCsv ==
    /\ csvKeys = TableCols
    /\ csvData = <<>>
    /\ csvPc = "start"
    /\ csvSql = <<>>
    /\ csvFile = [data |-> <<>>, pos |-> 0]
    /\ csvLoaded = <<>>

-----------------------------------------------------------------------------
(* The relational inserters: MySQLDatabaseInserter.insert_df and           *)
(* PostgreSQLDatabaseInserter.insert_df.                                   *)

InsRows == {<<i, n>> : i \in {Int1(1)}, n \in {Text(<<"a">>), Text(<<>>), Null}}

NoCall == [op |-> "none", outcome |-> "none", wrote |-> FALSE, logged |-> "none",
           closed |-> FALSE, closeRaised |-> FALSE, pre |-> <<>>, D |-> <<>>]

\* df.to_sql(name=table_name, con=engine, if_exists='append', index=False):
\* the rows of the dataset are added after the rows the table holds.
ToSqlAppend(tbl, D) == tbl \o D

\* df.to_sql(..., if_exists='append', index=False, method=self.psql_insert_copy):
\* the rows are added by the COPY command psql_insert_copy issues.
ToSqlCopy(tbl, D) == tbl \o CopyExpert(CopyCall(TableName, TableCols, D))

\* BaseDatabaseHandler.close_connection: self.engine.dispose()
close_connection(eng) == "disposed"

\* close_connection as the last statement of the try block instead of the
\* finally block: skipped when the write raises.
CloseInTry(wrote) == wrote

\* Whether insert_df invokes close_connection, given how the write went: it
\* sits in the finally block, so it runs on both paths.
CloseOnExit(wrote) == TRUE

\* try: to_sql; print success / except Exception: print failure /
\* finally: close_connection. written is the table a successful write leaves;
\* left is the engine's state when dispose itself raises.
InsertDfRun(op, eng, tbl, D, written, writeFails, closeFails, left) ==
    LET wrote  == ~writeFails
        closed == CloseOnExit(wrote)
        raised == closed /\ closeFails
    IN  [table  |-> IF wrote THEN written ELSE tbl,
         engine |-> IF ~closed THEN "live"
                    ELSE IF closeFails THEN left
                    ELSE close_connection(eng),
         stale  |-> eng = "disposed",
         closed |-> closed,
         ret    |-> [op |-> op,
                     outcome |-> IF raised THEN "raised" ELSE "returned",
                     wrote |-> wrote,
                     logged |-> IF wrote THEN "success" ELSE "failed",
                     closed |-> closed,
                     closeRaised |-> raised,
                     pre |-> tbl,
                     D |-> D]]

InsertDfApply(r) ==
    /\ table' = r.table
    /\ engine' = r.engine
    /\ calls' = calls + 1
    /\ closeCalls' = closeCalls + (IF r.closed THEN 1 ELSE 0)
    /\ staleWrites' = staleWrites + (IF r.stale THEN 1 ELSE 0)
    /\ ret' = r.ret
    /\ UNCHANGED kind

MySQL_insert_df ==
    /\ kind = "mysql"
    /\ calls < MaxCalls
    /\ \E D \in SeqsUpTo(InsRows, MaxRows), writeFails \in BOOLEAN,
          closeFails \in BOOLEAN, left \in {"live", "disposed"} :
          /\ Len(table) + Len(D) <= MaxTable
          /\ closeFails \/ left = "disposed"
          /\ InsertDfApply(InsertDfRun("mysql.insert_df", engine, table, D,
                                       ToSqlAppend(table, D),
                                       writeFails, closeFails, left))
    /\ UNCHANGED <<csvVars, hVars, gVars>>

PostgreSQL_insert_df ==
    /\ kind = "postgres"
    /\ calls < MaxCalls
    /\ \E D \in SeqsUpTo(InsRows, MaxRows), writeFails \in BOOLEAN,
          closeFails \in BOOLEAN, left \in {"live", "disposed"} :
          /\ Len(table) + Len(D) <= MaxTable
          /\ closeFails \/ left = "disposed"
          /\ InsertDfApply(InsertDfRun("postgres.insert_df", engine, table, D,
                                       ToSqlCopy(table, D),
                                       writeFails, closeFails, left))
    /\ UNCHANGED <<csvVars, hVars, gVars>>

\* BaseDatabaseInserter.__init__: the handler holds a fresh engine; the
\* target table holds whatever rows it held before.
InitRel ==
    /\ kind \in {"mysql", "postgres"}
    /\ engine = "live"
    /\ table \in SeqsUpTo(InsRows, 1)
    /\ calls = 0
    /\ closeCalls = 0
    /\ staleWrites = 0
    /\ ret = NoCall

\* No relational inserter in use.
IdleRel ==
    /\ kind = "postgres"
    /\ engine = "live"
    /\ table = <<>>
    /\ calls = 0
    /\ closeCalls = 0
    /\ staleWrites = 0
    /\ ret = NoCall

-----------------------------------------------------------------------------
(* The spreadsheet inserter: BaseGoogleSheetsHandler.execute_query and     *)
(* GoogleSheetsInserter.insert_df_to_google_sheet.                         *)

SheetName == "Sheet1"
SheetCols == <<"A", "B">>
ColIndex(c) == CHOOSE i \in 1..Len(SheetCols) : SheetCols[i] = c

EmptyCell == ""

\* A sheet whose column A holds a rows and whose column B holds b rows.
FilledSheet(a, b) ==
    [r \in 1..MaxSheetRows |->
        [c \in 1..Len(SheetCols) |->
            IF (c = 1 /\ r <= a) \/ (c = 2 /\ r <= b) THEN "o" ELSE EmptyCell]]

\* The rows a dataset may hold: one or two cells wide.
SheetDataRows == {<<"x">>, <<"x", "y">>}

\* sheetname + "!" + start_column + ":" + end_column
ReadRange(sheetname, start, end) == [sheet |-> sheetname, start |-> start, end |-> end]

\* spreadsheets().values().get(range).execute(): the rows of the range down
\* to its last row that holds a value, each row its cells in the range.
ValuesGet(sh, range) ==
    LET lo == ColIndex(range.start)
        hi == ColIndex(range.end)
        populated == {r \in 1..MaxSheetRows : \E c \in lo..hi : sh[r][c] # EmptyCell}
        last == IF populated = {} THEN 0
                ELSE CHOOSE r \in populated : \A q \in populated : q <= r
    IN  [r \in 1..last |-> [c \in 1..(hi - lo + 1) |-> sh[r][lo + c - 1]]]

\* BaseGoogleSheetsHandler.execute_query: result.get('values', [])
gs_execute_query(sh, range) == ValuesGet(sh, range)

\* The target row off by one: the last populated row instead of the next.
UpdateRangeAtLast(sheetname, values) ==
    [sheet |-> sheetname, col |-> "A", row |-> Len(values)]

\* range=sheetname + "!A" + str(len(values) + 1)
UpdateRange(sheetname, values) ==
    [sheet |-> sheetname, col |-> "A", row |-> Len(values) + 1]

\* The update request insert_df_to_google_sheet builds.
UpdateRequest(sheetname, values, D) ==
    [range |-> UpdateRange(sheetname, values), valueInputOption |-> "RAW", body |-> D]

\* Whether the request's rows lie inside the sheet's grid.
FitsGrid(req) ==
    /\ req.range.row + Len(req.body) - 1 <= MaxSheetRows
    /\ \A i \in 1..Len(req.body) :
          ColIndex(req.range.col) + Len(req.body[i]) - 1 <= Len(SheetCols)

\* spreadsheets().values().update(...).execute(): the body's cells are
\* written from the range's cell on, row by row.
ValuesUpdate(sh, req) ==
    LET r0 == req.range.row
        c0 == ColIndex(req.range.col)
    IN  [r \in 1..MaxSheetRows |->
            [c \in 1..Len(SheetCols) |->
                IF /\ r >= r0 /\ r < r0 + Len(req.body)
                   /\ c >= c0 /\ c < c0 + Len(req.body[r - r0 + 1])
                THEN req.body[r - r0 + 1][c - c0 + 1]
                ELSE sh[r][c]]]

NoGCall == [outcome |-> "none", logged |-> "none", read |-> FALSE, readRange |-> ReadRange(SheetName, "A", "A"),
            n |-> 0, updates |-> <<>>, updated |-> FALSE, D |-> <<>>,
            pre |-> FilledSheet(0, 0)]

\* try: values = self.execute_query(...); update(...).execute(); print success
\* except Exception: print failure
InsertSheetRun(sh, D, sheetname, start, end, readFails, updateFails) ==
    LET range   == ReadRange(sheetname, start, end)
        values  == gs_execute_query(sh, range)
        req     == UpdateRequest(sheetname, values, D)
        issued  == ~readFails
        updated == issued /\ ~updateFails /\ FitsGrid(req)
    IN  [sheet |-> IF updated THEN ValuesUpdate(sh, req) ELSE sh,
         ret   |-> [outcome |-> "returned",
                    logged |-> IF updated THEN "success" ELSE "failed",
                    read |-> ~readFails,
                    readRange |-> range,
                    n |-> IF readFails THEN 0 ELSE Len(values),
                    updates |-> IF issued THEN <<req>> ELSE <<>>,
                    updated |-> updated,
                    D |-> D,
                    pre |-> sh]]

insert_df_to_google_sheet ==
    /\ kind = "sheets"
    /\ gCalls < MaxGCalls
    /\ \E D \in SeqsUpTo(SheetDataRows, MaxSheetData),
          start \in {"A", "B"}, end \in {"A", "B"},
          readFails \in BOOLEAN, updateFails \in BOOLEAN :
          /\ ColIndex(start) <= ColIndex(end)
          /\ readFails => ~updateFails
          /\ LET r == InsertSheetRun(sheet, D, SheetName, start, end,
                                     readFails, updateFails)
             IN  /\ sheet' = r.sheet
                 /\ gRet' = r.ret
          /\ gCalls' = gCalls + 1
    /\ UNCHANGED <<csvVars, insVars, hVars>>

\* GoogleSheetsInserter.__init__: a service; the sheet holds what it held.
InitG ==
    /\ kind = "sheets"
    /\ engine = "live"
    /\ table = <<>>
    /\ calls = 0
    /\ closeCalls = 0
    /\ staleWrites = 0
    /\ ret = NoCall
    /\ \E a \in 0..MaxFill, b \in 0..MaxFill : sheet = FilledSheet(a, b)
    /\ gCalls = 0
    /\ gRet = NoGCall

\* No spreadsheet inserter in use.
IdleG ==
    /\ sheet = FilledSheet(0, 0)
    /\ gCalls = 0
    /\ gRet = NoGCall

\* One inserter is constructed: a relational one or the spreadsheet one.
InitIns == (InitRel /\ IdleG) \/ InitG

\* No inserter in use.
IdleIns == IdleRel /\ IdleG

-----------------------------------------------------------------------------
(* The session handler: BaseDatabaseHandler.execute_query and batch_update. *)
(* A session is the pair of what the database holds committed and what the *)
(* session's open transaction has pending.                                 *)

HRows == {<<Int1(1), Text(<<"a">>)>>, <<Int1(7), Text(<<"a">>)>>}

\* The statements a caller may run: kind and the row it carries.
Statements ==
    {[kind |-> "select", row |-> <<>>], [kind |-> "ddl", row |-> <<>>]}
    \cup {[kind |-> k, row |-> r] : k \in {"insert", "insert_returning", "delete"},
                                   r \in HRows}

\* result.returns_rows
ReturnsRows(stmt) == stmt.kind \in {"select", "insert_returning"}

RECURSIVE Without(_, _)
Without(t, r) == IF t = <<>> THEN <<>>
                 ELSE IF Head(t) = r THEN Without(Tail(t), r)
                 ELSE <<Head(t)>> \o Without(Tail(t), r)

\* What a statement of kind k, run with row r, makes of the rows t.
Effect(k, t, r) == IF k \in {"insert", "insert_returning"} THEN Append(t, r)
                   ELSE IF k = "delete" THEN Without(t, r)
                   ELSE t

\* The rows a row-producing statement yields.
ResultRows(stmt, t) == IF stmt.kind = "select" THEN t
                       ELSE IF stmt.kind = "insert_returning" THEN <<stmt.row>>
                       ELSE <<>>

\* session = self.Session()
SessionOpen(t) == [committed |-> t, pending |-> t]

\* A session that commits each statement as it runs it.
SessionExecuteAutocommit(s, k, r) ==
    LET t == Effect(k, s.pending, r) IN [committed |-> t, pending |-> t]

\* session.execute(text(sql), params)
SessionExecute(s, k, r) == [s EXCEPT !.pending = Effect(k, s.pending, r)]

\* session.commit()
SessionCommit(s) == [s EXCEPT !.committed = s.pending]

\* session.rollback()
SessionRollback(s) == [s EXCEPT !.pending = s.committed]

\* session.close(): the open transaction, if any, is discarded.
SessionClose(s) == [s EXCEPT !.pending = s.committed]

\* session.close() as the last statement of the try block: skipped on a raise.
SessionClosedInTry(raisedInTry) == ~raisedInTry

\* Whether the call closes its session, given whether the try block raised:
\* session.close() sits in the finally block.
SessionClosedOnExit(raisedInTry) == TRUE

\* The sentinel returned whenever there is no row to hand back.
ReturnsSentinelIfEmpty(returnsRows, rows) == ~returnsRows \/ rows = <<>>

\* Whether execute_query returns the (None, None) pair.
ReturnsSentinel(returnsRows, rows) == ~returnsRows

NoResult == [none |-> FALSE, rows |-> <<>>, keys |-> <<>>]

NoHCall == [op |-> "none", outcome |-> "none", error |-> "none", failed |-> "none",
            rollbackRaised |-> FALSE, stmt |-> [kind |-> "ddl", row |-> <<>>],
            data |-> <<>>, failAt |-> 0, executed |-> 0, committed |-> FALSE,
            result |-> NoResult, pre |-> <<>>]

\* execute_query(query). fail names the step that raises ("none": no step);
\* rbFails: session.rollback() itself raises.
ExecuteQueryRun(t, stmt, fail, rbFails) ==
    LET s0        == SessionOpen(t)
        executed  == fail # "execute"
        s1        == IF executed THEN SessionExecute(s0, stmt.kind, stmt.row) ELSE s0
        committed == executed /\ fail # "commit"
        s2        == IF committed THEN SessionCommit(s1) ELSE s1
        rows      == ResultRows(stmt, s1.pending)
        fetchRaised == committed /\ ReturnsRows(stmt) /\ fail = "fetch"
        raisedInTry == ~committed \/ fetchRaised
        s3        == IF raisedInTry /\ ~rbFails THEN SessionRollback(s2) ELSE s2
        closed    == SessionClosedOnExit(raisedInTry)
        s4        == IF closed THEN SessionClose(s3) ELSE s3
    IN  [table  |-> s4.committed,
         closed |-> closed,
         ret    |-> [op |-> "execute_query",
                     outcome |-> IF raisedInTry THEN "raised" ELSE "returned",
                     error |-> IF ~raisedInTry THEN "none"
                               ELSE IF rbFails THEN "rollback" ELSE fail,
                     failed |-> IF raisedInTry THEN fail ELSE "none",
                     rollbackRaised |-> raisedInTry /\ rbFails,
                     stmt |-> stmt,
                     data |-> <<>>,
                     failAt |-> 0,
                     executed |-> IF executed THEN 1 ELSE 0,
                     committed |-> committed,
                     result |-> IF raisedInTry THEN NoResult
                                ELSE IF ReturnsSentinel(ReturnsRows(stmt), rows)
                                     THEN [none |-> TRUE, rows |-> <<>>, keys |-> <<>>]
                                     ELSE [none |-> FALSE, rows |-> rows, keys |-> TableCols],
                     pre |-> t]]

\* for params in data: session.execute(text(update_sql), params)
\* The loop from entry i on; failAt is the entry whose execute raises (0: none).
RECURSIVE BatchLoop(_, _, _, _, _)
BatchLoop(s, k, data, i, failAt) ==
    IF i > Len(data) THEN [session |-> s, executed |-> i - 1, raised |-> FALSE]
    ELSE IF i = failAt THEN [session |-> s, executed |-> i - 1, raised |-> TRUE]
    ELSE BatchLoop(SessionExecute(s, k, data[i]), k, data, i + 1, failAt)

\* batch_update(update_sql, data). failAt in 1..Len(data): that entry's
\* execute raises; Len(data) + 1: the commit raises; 0: nothing raises.
BatchUpdateRun(t, k, data, failAt, rbFails) ==
    LET loop      == BatchLoop(SessionOpen(t), k, data, 1, failAt)
        committed == ~loop.raised /\ failAt # Len(data) + 1
        s2        == IF committed THEN SessionCommit(loop.session) ELSE loop.session
        raisedInTry == ~committed
        s3        == IF raisedInTry /\ ~rbFails THEN SessionRollback(s2) ELSE s2
        closed    == SessionClosedOnExit(raisedInTry)
        s4        == IF closed THEN SessionClose(s3) ELSE s3
    IN  [table  |-> s4.committed,
         closed |-> closed,
         ret    |-> [op |-> "batch_update",
                     outcome |-> IF raisedInTry THEN "raised" ELSE "returned",
                     error |-> IF ~raisedInTry THEN "none"
                               ELSE IF rbFails THEN "rollback"
                               ELSE IF loop.raised THEN "execute" ELSE "commit",
                     failed |-> IF ~raisedInTry THEN "none"
                                ELSE IF loop.raised THEN "execute" ELSE "commit",
                     rollbackRaised |-> raisedInTry /\ rbFails,
                     stmt |-> [kind |-> k, row |-> <<>>],
                     data |-> data,
                     failAt |-> failAt,
                     executed |-> loop.executed,
                     committed |-> committed,
                     result |-> NoResult,
                     pre |-> t]]

HandlerApply(r) ==
    /\ table' = r.table
    /\ openSessions' = openSessions + 1 - (IF r.closed THEN 1 ELSE 0)
    /\ peakOpen' = IF openSessions + 1 > peakOpen THEN openSessions + 1 ELSE peakOpen
    /\ hRet' = r.ret
    /\ calls' = calls + 1
    /\ UNCHANGED <<kind, engine, closeCalls, staleWrites, ret, csvVars, gVars>>

execute_query ==
    /\ calls < MaxHCalls
    /\ \E stmt \in Statements, fail \in {"none", "execute", "commit", "fetch"},
          rbFails \in BOOLEAN :
          /\ fail = "fetch" => ReturnsRows(stmt)
          /\ rbFails => fail # "none"
          /\ Len(Effect(stmt.kind, table, stmt.row)) <= MaxTable
          /\ HandlerApply(ExecuteQueryRun(table, stmt, fail, rbFails))

batch_update ==
    /\ calls < MaxHCalls
    /\ \E k \in {"insert", "delete"}, data \in SeqsUpTo(HRows, MaxBatch),
          rbFails \in BOOLEAN :
          \E failAt \in 0..(Len(data) + 1) :
              /\ rbFails => failAt # 0
              /\ Len(table) + Len(data) <= MaxTable
              /\ HandlerApply(BatchUpdateRun(table, k, data, failAt, rbFails))

\* BaseDatabaseHandler.__init__ / setup: an engine and a session factory, no
\* session open; the table holds whatever rows it held before.
InitH ==
    /\ kind = "postgres"
    /\ engine = "live"
    /\ table \in SeqsUpTo(HRows, 1)
    /\ calls = 0
    /\ closeCalls = 0
    /\ staleWrites = 0
    /\ ret = NoCall
    /\ openSessions = 0
    /\ peakOpen = 0
    /\ hRet = NoHCall

\* The handler's sessions not in use.
IdleH ==
    /\ openSessions = 0
    /\ peakOpen = 0
    /\ hRet = NoHCall

-----------------------------------------------------------------------------
(* Specifications *)

NextCsv == psql_insert_copy

NextIns == MySQL_insert_df \/ PostgreSQL_insert_df \/ insert_df_to_google_sheet

\* The bulk writer alone, on every dataset within the bounds.
InitSpecCsv == InitCsv /\ IdleIns /\ IdleH
SpecCsv == InitSpecCsv /\ [][NextCsv]_vars

\* The relational inserters.
InitSpecIns == InitIns /\ IdleCsv /\ IdleH
SpecIns == InitSpecIns /\ [][NextIns]_vars

NextH == execute_query \/ batch_update

\* The session handler.
InitSpecH == InitH /\ IdleCsv /\ IdleG
SpecH == InitSpecH /\ [][NextH]_vars

-----------------------------------------------------------------------------
(* Claims *)

\* C1: no insert call of any inserter lets an exception reach the caller,
\* whichever step fails (the write, the range read, the connection teardown).
C1_NoExceptionEscapes ==
    /\ ret.outcome # "raised"
    /\ gRet.outcome # "raised"

\* C2: every insert_df call that has ended invoked close_connection, whether
\* the write succeeded or failed, and the engine is disposed once dispose
\* has completed.
C2_CloseReached ==
    ret.outcome # "none" =>
        /\ ret.closed
        /\ (~ret.closeRaised => engine = "disposed")

\* A call whose write failed has returned with the engine disposed.
C2_Witness ==
    /\ ret.outcome = "returned"
    /\ ~ret.wrote
    /\ ret.closed
    /\ engine = "disposed"

\* C3: over any sequence of insert_df calls on one instance the engine is
\* released exactly once (close_connection is not invoked a second time) and
\* no write is attempted through the engine after its release.
C3_ReleasedOnceNeverReused ==
    /\ closeCalls <= 1
    /\ staleWrites = 0

RECURSIVE EffectOfAll(_, _, _)
EffectOfAll(k, t, data) ==
    IF data = <<>> THEN t ELSE EffectOfAll(k, Effect(k, t, Head(data)), Tail(data))

\* C4: batch_update is all-or-nothing. When the execute of entry k raises, the
\* entries after k were never executed and the table is as before the call;
\* the table changes only when all entries executed and the commit went
\* through, and then it holds the effect of every entry, in order.
C4_AllOrNothing ==
    hRet.op = "batch_update" =>
        /\ (hRet.failAt \in 1..Len(hRet.data) =>
                /\ hRet.outcome = "raised"
                /\ hRet.executed = hRet.failAt - 1
                /\ table = hRet.pre)
        /\ (hRet.outcome = "raised" => table = hRet.pre)
        /\ (hRet.outcome = "returned" =>
                /\ hRet.executed = Len(hRet.data)
                /\ table = EffectOfAll(hRet.stmt.kind, hRet.pre, hRet.data))

\* A batch of two inserts whose second entry failed: the first was executed,
\* and the table is as before.
C4_Witness ==
    /\ hRet.op = "batch_update"
    /\ hRet.stmt.kind = "insert"
    /\ Len(hRet.data) = 2
    /\ hRet.failAt = 2
    /\ hRet.executed = 1
    /\ table = hRet.pre

\* C5: when a step of execute_query or batch_update fails (execute, commit or
\* fetching the rows), nothing the call did remains committed and the
\* original error is what reaches the caller.
C5_FailureLeavesNothingCommitted ==
    (hRet.outcome = "raised" /\ ~hRet.rollbackRaised) =>
        /\ table = hRet.pre
        /\ hRet.error = hRet.failed

\* C6: when a handler call has ended, on any path, no session is left open,
\* and no more than one session was ever open at a time.
C6_SessionsClosed ==
    /\ openSessions = 0
    /\ peakOpen <= 1

\* A second call has ended by a raise whose rollback raised too, and no
\* session is open.
C6_Witness ==
    /\ calls = 2
    /\ hRet.outcome = "raised"
    /\ hRet.rollbackRaised
    /\ openSessions = 0
    /\ peakOpen = 1

C8_AppendOnly ==
    (ret.wrote /\ ret.D # <<>>) => table = ret.pre \o ret.D

C10_RoundTrip ==
    csvPc = "done" => DecodeRows(csvFile, csvKeys) = csvData

\* The tokens of the command's column list for keys: each key between double
\* quotes, the keys separated by ", ", in the order of keys.
C11_ColumnTokens(keys) ==
    [p \in 1..(IF keys = <<>> THEN 0 ELSE 4 * Len(keys) - 1) |->
        IF p % 4 = 0 THEN ", "
        ELSE IF p % 4 = 2 THEN keys[(p + 2) \div 4]
        ELSE QUOTE]

\* C11: the command psql_insert_copy issues is COPY <table> (<columns>) FROM
\* STDIN WITH CSV, its column list every key, double-quoted, in the order of
\* keys; every record of the buffer has one field per key, field i the text
\* of the row's value for key i; the buffer holds every row and is at
\* position 0 when the command is issued, and the command loads as many
\* rows as the dataset has.
C11_CommandAndBuffer ==
    csvPc = "done" =>
        LET recs == CopyParse(csvFile.data, 1, FALSE, <<>>, FALSE, <<>>, <<>>)
        IN  /\ csvSql = <<"COPY ", TableName, " (">> \o C11_ColumnTokens(csvKeys)
                           \o <<") FROM STDIN WITH CSV">>
            /\ csvFile.pos = 0
            /\ Len(recs) = Len(csvData)
            /\ \A j \in 1..Len(recs) :
                  /\ Len(recs[j]) = Len(csvKeys)
                  /\ \A i \in 1..Len(csvKeys) : recs[j][i].txt = Str(csvData[j][i])
            /\ Len(csvLoaded) = Len(csvData)

\* Two rows with the keys in the order name, id were written and loaded.
C11_Witness ==
    /\ csvPc = "done"
    /\ csvKeys = <<"name", "id">>
    /\ Len(csvData) = 2
    /\ csvData[1][1] = Text(<<COMMA>>)
    /\ csvData[2][2] = Int1(7)
    /\ Len(csvLoaded) = 2
    /\ csvLoaded[2][1] = Int1(7)

\* C12: with a dataset of zero rows psql_insert_copy still builds its buffer,
\* which is empty, and still issues the COPY command, which loads no row; a
\* PostgreSQL insert_df of a zero-row dataset whose write goes through
\* returns normally, logs success and leaves the table's rows as they were.
C12_EmptyDataset ==
    (csvPc = "done" /\ csvData = <<>>) =>
        /\ csvFile = [data |-> <<>>, pos |-> 0]
        /\ csvSql = <<"COPY ", TableName, " (">> \o C11_ColumnTokens(csvKeys)
                       \o <<") FROM STDIN WITH CSV">>
        /\ csvLoaded = <<>>
        /\ \A t \in SeqsUpTo(InsRows, MaxTable) :
              LET r == InsertDfRun("postgres.insert_df", "live", t, <<>>,
                                   ToSqlCopy(t, <<>>), FALSE, FALSE, "disposed")
              IN  /\ r.ret.outcome = "returned"
                  /\ r.ret.logged = "success"
                  /\ Len(r.table) = Len(t)
                  /\ r.table = t

\* psql_insert_copy has run on a dataset of zero rows with two keys: the
\* command was issued and nothing was loaded.
C12_Witness ==
    /\ csvPc = "done"
    /\ csvData = <<>>
    /\ csvKeys = <<"id", "name">>
    /\ csvSql # <<>>
    /\ csvFile.data = <<>>
    /\ csvLoaded = <<>>

====
